---- MODULE Spec2Model ----
(***************************************************************************)
(* Model of the scout-block tool-call guard:                               *)
(*   src/.opencode/plugin/lib/scout-checker.cjs   (checkScoutBlock and the *)
(*       command classifier it is built on)                                *)
(*   src/docs/security-configuration.md:120-266   (the scout-block.cjs     *)
(*       hook that wraps checkScoutBlock and turns its verdict into an     *)
(*       exit code)                                                        *)
(* Command strings are TLA+ strings handled character by character, so the *)
(* regular expressions of the source are modelled by what they match.      *)
(***************************************************************************)
EXTENDS Integers, Sequences, FiniteSets, TLC

VARIABLES
    cmd,        \* pure-function runs: the command string the run started from
    out,        \* pure-function runs: the results produced so far, in order
    toolName,   \* checkScoutBlock: params.toolName
    toolInput,  \* checkScoutBlock: params.toolInput as the caller holds it
    options,    \* checkScoutBlock: params.options
    ckignore,   \* the rule resource (.ckignore) as found on disk
    detReason,  \* the reason text the broad-pattern detector attaches, if any
    outcome,    \* checkScoutBlock: what the call ended with (return or throw)
    calls,      \* checkScoutBlock: the collaborators invoked, in call order
    narrowed,   \* checkScoutBlock: the toolInput the later stages worked on
    stdin,      \* scout-block hook: the payload read from stdin
    hookEnabled,\* scout-block hook: none (no hook run), enabled, disabled, crashed
    exitCode    \* scout-block hook: process exit code (-1: no hook run)

vars == <<cmd, out, toolName, toolInput, options, ckignore, detReason,
          outcome, calls, narrowed, stdin, hookEnabled, exitCode>>

----------------------------------------------------------------------------
(* Characters and elementary string operations                             *)

\* \s of a JavaScript regular expression, and what String.prototype.trim removes
SpaceChars == {" ", "\t", "\n", "\r"}

\* \w of a JavaScript regular expression
WordChars ==
    {"a","b","c","d","e","f","g","h","i","j","k","l","m","n","o","p","q","r",
     "s","t","u","v","w","x","y","z",
     "A","B","C","D","E","F","G","H","I","J","K","L","M","N","O","P","Q","R",
     "S","T","U","V","W","X","Y","Z",
     "0","1","2","3","4","5","6","7","8","9","_"}

\* line terminators, which "." of a regular expression does not match
LineTerminators == {"\n", "\r"}

Ch(s, i) == SubSeq(s, i, i)

From(s, i) == SubSeq(s, i, Len(s))

StartsAt(s, i, p) == i + Len(p) - 1 <= Len(s) /\ SubSeq(s, i, i + Len(p) - 1) = p

\* first index >= i whose character is not in set (Len(s)+1 when there is none)
RECURSIVE SkipIn(_, _, _)
SkipIn(s, i, set) ==
    IF i <= Len(s) /\ Ch(s, i) \in set THEN SkipIn(s, i + 1, set) ELSE i

\* first index >= i whose character is in set (Len(s)+1 when there is none)
RECURSIVE SkipNotIn(_, _, _)
SkipNotIn(s, i, set) ==
    IF i <= Len(s) /\ Ch(s, i) \notin set THEN SkipNotIn(s, i + 1, set) ELSE i

\* last index <= i whose character is not in set (0 when there is none)
RECURSIVE BackIn(_, _, _)
BackIn(s, i, set) ==
    IF i >= 1 /\ Ch(s, i) \in set THEN BackIn(s, i - 1, set) ELSE i

\* String.prototype.trim
Trim(s) == SubSeq(s, SkipIn(s, 1, SpaceChars), BackIn(s, Len(s), SpaceChars))

----------------------------------------------------------------------------
(* JavaScript values: a type tag and, for strings, the text                *)

Str(s) == [t |-> "string", v |-> s]
Undef == [t |-> "undefined", v |-> ""]
Num(n) == [t |-> "number", v |-> n]
Bool(b) == [t |-> "boolean", v |-> IF b THEN "true" ELSE "false"]

IsStr(x) == x.t = "string"

\* ToBoolean
Truthy(x) ==
    CASE x.t = "string" -> x.v # ""
      [] x.t = "number" -> x.v # "0"
      [] x.t = "boolean" -> x.v = "true"
      [] x.t = "object" -> TRUE
      [] OTHER -> FALSE

----------------------------------------------------------------------------
(* COMMAND PATTERNS and HELPER FUNCTIONS of scout-checker.cjs              *)

\* end (index after) of one /\w+=\S+\s+/ at index i, 0 when it does not match
EnvAssignEnd(s, i) ==
    LET w == SkipIn(s, i, WordChars)
        v == SkipNotIn(s, w + 1, SpaceChars)
        e == SkipIn(s, v, SpaceChars)
    IN  IF w > i /\ StartsAt(s, w, "=") /\ v > w + 1 /\ e > v THEN e ELSE 0

\* end of the longest /^(\w+=\S+\s+)+/ from index i (i itself: no match)
RECURSIVE EnvAssignsEnd(_, _)
EnvAssignsEnd(s, i) ==
    LET e == EnvAssignEnd(s, i) IN IF e = 0 THEN i ELSE EnvAssignsEnd(s, e)

\* s.replace(/^(\w+=\S+\s+)+/, '')
StripEnvAssigns(s) == From(s, EnvAssignsEnd(s, 1))

WRAPPERS == {"sudo", "env", "nice", "nohup", "time", "timeout"}

\* s.replace(/^(sudo|env|nice|nohup|time|timeout)\s+/, '')
StripWrapper(s) ==
    LET hit == {w \in WRAPPERS :
                   StartsAt(s, 1, w) /\ SkipIn(s, Len(w) + 1, SpaceChars) > Len(w) + 1}
    IN  IF hit = {} THEN s
        ELSE LET w == CHOOSE w \in hit : TRUE
             IN  From(s, SkipIn(s, Len(w) + 1, SpaceChars))

\* StripPrefixStr without the second pass over the assignments (line 57)
StripPrefixStr_NoSecondEnvPass(s) == Trim(StripWrapper(StripEnvAssigns(Trim(s))))

\* stripCommandPrefix on a non-empty string
StripPrefixStr(s) == Trim(StripEnvAssigns(StripWrapper(StripEnvAssigns(Trim(s)))))

stripCommandPrefix(command) ==
    IF ~Truthy(command) \/ ~IsStr(command) THEN command
    ELSE Str(StripPrefixStr(command.v))

PACKAGE_MANAGERS == {"npm", "pnpm", "yarn", "bun"}

SAFE_VERBS == {"build", "test", "lint", "dev", "start", "install", "ci", "add",
               "remove", "update", "publish", "pack", "init", "create", "exec"}

\* some token starting at or after index i (each token reached by skipping
\* whole /[^\s]+\s+/ groups) begins with a safe verb
RECURSIVE VerbAtToken(_, _)
VerbAtToken(s, i) ==
    IF i > Len(s) THEN FALSE
    ELSE \/ \E v \in SAFE_VERBS : StartsAt(s, i, v)
         \/ LET t == SkipNotIn(s, i, SpaceChars)
                n == SkipIn(s, t, SpaceChars)
            IN  t > i /\ n > t /\ VerbAtToken(s, n)

\* /^(npm|pnpm|yarn|bun)\s+([^\s]+\s+)*(run\s+)?(build|test|...|exec)/.test(s)
BUILD_COMMAND_PATTERN(s) ==
    \E pm \in PACKAGE_MANAGERS :
        /\ StartsAt(s, 1, pm)
        /\ LET n == SkipIn(s, Len(pm) + 1, SpaceChars)
           IN  n > Len(pm) + 1 /\ VerbAtToken(s, n)

TOOL_NAMES ==
    {"npx", "pnpx", "bunx", "tsc", "esbuild", "vite", "webpack", "rollup",
     "turbo", "nx", "jest", "vitest", "mocha", "eslint", "prettier", "go",
     "cargo", "make", "mvn", "mvnw", "gradle", "gradlew", "dotnet", "docker",
     "podman", "kubectl", "helm", "terraform", "ansible", "bazel", "cmake",
     "sbt", "flutter", "swift", "ant", "ninja", "meson", "python", "pip", "uv",
     "deno", "bundle", "rake", "gem", "php", "composer", "ruby", "mix", "elixir"}

\* /^(\.\/)?(npx|pnpx|...|elixir)/.test(s): a prefix match, no word boundary
TOOL_COMMAND_PATTERN(s) ==
    LET i == IF StartsAt(s, 1, "./") THEN 3 ELSE 1
    IN  \E n \in TOOL_NAMES : StartsAt(s, i, n)

PathSeps == {"/", "\\"}

\* /(^|[\/\\])\.?venv[\/\\](bin|Scripts)[\/\\]/.test(s): matches anywhere
VENV_EXECUTABLE_PATTERN(s) ==
    \E i \in 1..Len(s) :
        /\ i = 1 \/ Ch(s, i - 1) \in PathSeps
        /\ \E j \in {i, i + 1} :
              /\ j = i \/ Ch(s, i) = "."
              /\ StartsAt(s, j, "venv")
              /\ j + 4 <= Len(s) /\ Ch(s, j + 4) \in PathSeps
              /\ \E d \in {"bin", "Scripts"} :
                    /\ StartsAt(s, j + 5, d)
                    /\ j + 5 + Len(d) <= Len(s)
                    /\ Ch(s, j + 5 + Len(d)) \in PathSeps

\* /(-[\w.]+\s+)*-m\s+venv\s+/ matches at index i
RECURSIVE VenvModuleAt(_, _)
VenvModuleAt(s, i) ==
    \/ /\ StartsAt(s, i, "-m")
       /\ LET a == SkipIn(s, i + 2, SpaceChars)
          IN  a > i + 2 /\ StartsAt(s, a, "venv")
                        /\ SkipIn(s, a + 4, SpaceChars) > a + 4
    \/ /\ StartsAt(s, i, "-")
       /\ LET f == SkipIn(s, i + 1, WordChars \cup {"."})
              n == SkipIn(s, f, SpaceChars)
          IN  f > i + 1 /\ n > f /\ VenvModuleAt(s, n)

\* /^(python3?|py)\s+(-[\w.]+\s+)*-m\s+venv\s+|^uv\s+venv(\s|$)|^virtualenv\s+/.test(s)
VENV_CREATION_PATTERN(s) ==
    \/ \E py \in {"python3", "python", "py"} :
          /\ StartsAt(s, 1, py)
          /\ LET n == SkipIn(s, Len(py) + 1, SpaceChars)
             IN  n > Len(py) + 1 /\ VenvModuleAt(s, n)
    \/ /\ StartsAt(s, 1, "uv")
       /\ LET n == SkipIn(s, 3, SpaceChars)
          IN  n > 3 /\ StartsAt(s, n, "venv")
                    /\ (n + 4 > Len(s) \/ Ch(s, n + 4) \in SpaceChars)
    \/ StartsAt(s, 1, "virtualenv") /\ SkipIn(s, 11, SpaceChars) > 11

isBuildCommand(command) ==
    /\ Truthy(command) /\ IsStr(command)
    /\ LET trimmed == Trim(command.v)
       IN  BUILD_COMMAND_PATTERN(trimmed) \/ TOOL_COMMAND_PATTERN(trimmed)

isVenvExecutable(command) ==
    Truthy(command) /\ IsStr(command) /\ VENV_EXECUTABLE_PATTERN(command.v)

isVenvCreationCommand(command) ==
    Truthy(command) /\ IsStr(command) /\ VENV_CREATION_PATTERN(Trim(command.v))

isAllowedCommand(command) ==
    LET stripped == stripCommandPrefix(command)
    IN  isBuildCommand(stripped) \/ isVenvExecutable(stripped)
                                 \/ isVenvCreationCommand(stripped)

OPERATORS == {"&&", "||", ";"}

\* end (index after) of /\s*(?:&&|\|\||;)\s*/ matched at index q, 0 when no match
SeparatorEnd(s, q) ==
    LET o == SkipIn(s, q, SpaceChars)
        hit == {op \in OPERATORS : StartsAt(s, o, op)}
    IN  IF hit = {} THEN 0
        ELSE SkipIn(s, o + Len(CHOOSE op \in hit : TRUE), SpaceChars)

\* String.prototype.split with the separator expression: p is where the current
\* piece starts, q the index the separator is tried at
RECURSIVE SplitFrom(_, _, _)
SplitFrom(s, p, q) ==
    IF q > Len(s) THEN <<From(s, p)>>
    ELSE LET e == SeparatorEnd(s, q)
         IN  IF e = 0 THEN SplitFrom(s, p, q + 1)
             ELSE <<SubSeq(s, p, q - 1)>> \o SplitFrom(s, e, e)

\* the filter callback of splitCompoundCommand: cmd && cmd.trim().length > 0
NonBlank(piece) == piece # "" /\ Len(Trim(piece)) > 0

splitCompoundCommand(command) ==
    IF ~Truthy(command) \/ ~IsStr(command) THEN <<>>
    ELSE SelectSeq(SplitFrom(command.v, 1, 1), NonBlank)

SHELLS == {"bash", "sh", "zsh"}
QuoteChars == {"\"", "'"}

\* index of the opening quote when /^(?:(?:bash|sh|zsh)\s+-c|eval)\s+["']/ matches
\* the head of t, 0 otherwise
ExecutorQuoteAt(t) ==
    LET afterHead ==
            {SkipIn(t, Len(sh) + 1, SpaceChars) + 2 : sh \in
                {sh \in SHELLS :
                    /\ StartsAt(t, 1, sh)
                    /\ SkipIn(t, Len(sh) + 1, SpaceChars) > Len(sh) + 1
                    /\ StartsAt(t, SkipIn(t, Len(sh) + 1, SpaceChars), "-c")}}
            \cup (IF StartsAt(t, 1, "eval") THEN {5} ELSE {})
        quoteAt == {SkipIn(t, a, SpaceChars) : a \in
                       {a \in afterHead : /\ SkipIn(t, a, SpaceChars) > a
                                          /\ SkipIn(t, a, SpaceChars) <= Len(t)
                                          /\ Ch(t, SkipIn(t, a, SpaceChars)) \in QuoteChars}}
    IN  IF quoteAt = {} THEN 0 ELSE CHOOSE q \in quoteAt : TRUE

\* command.trim().match(/^(?:(?:bash|sh|zsh)\s+-c|eval)\s+["'](.+)["']\s*$/)
unwrapShellExecutor(command) ==
    IF ~Truthy(command) \/ ~IsStr(command) THEN command
    ELSE LET t == Trim(command.v)
             q == ExecutorQuoteAt(t)
             inner == SubSeq(t, q + 1, Len(t) - 1)
         IN  IF /\ q > 0
                /\ Len(t) >= q + 2
                /\ Ch(t, Len(t)) \in QuoteChars
                /\ \A k \in 1..Len(inner) : Ch(inner, k) \notin LineTerminators
             THEN Str(inner) ELSE command

----------------------------------------------------------------------------
(* Collaborators of checkScoutBlock: scout-block/broad-pattern-detector,   *)
(* scout-block/pattern-matcher and scout-block/path-extractor              *)

\* s contains the text p
Contains(s, p) == \E i \in 1..Len(s) : StartsAt(s, i, p)

\* the whitespace-separated tokens of s from index i on
RECURSIVE TokensFrom(_, _)
TokensFrom(s, i) ==
    LET b == SkipIn(s, i, SpaceChars)
        e == SkipNotIn(s, b, SpaceChars)
    IN  IF b > Len(s) THEN <<>> ELSE <<SubSeq(s, b, e - 1)>> \o TokensFrom(s, e)

Tokens(s) == TokensFrom(s, 1)

\* Array.prototype.join
RECURSIVE Join(_, _)
Join(seq, sep) ==
    IF seq = <<>> THEN ""
    ELSE IF Len(seq) = 1 THEN Head(seq)
    ELSE Head(seq) \o sep \o Join(Tail(seq), sep)

\* a pattern with no name or file-type qualifier: wildcards and separators only
IsBroadPattern(p) == p # "" /\ \A i \in 1..Len(p) : Ch(p, i) \in {"*", "/"}

\* assess(pattern): flags an unqualified pattern and proposes narrower ones
detectBroadPatternIssue(ti, reason) ==
    IF ti.kind = "object" /\ IsStr(ti.pattern) /\ IsBroadPattern(ti.pattern.v)
    THEN [blocked |-> TRUE, reason |-> reason,
          suggestions |-> <<"src/" \o ti.pattern.v, "**/*.ts">>]
    ELSE [blocked |-> FALSE, reason |-> Undef, suggestions |-> <<>>]

\* the rule resource read as lines; unreadable or missing: no rules
loadPatterns(resource) == IF resource.readable THEN resource.lines ELSE <<>>

\* a line that is a rule: not blank, not a comment
IsRuleLine(line) == Trim(line) # "" /\ ~StartsAt(line, 1, "#")

\* compile: blank lines and comments are not rules, the order is kept
createMatcher(patterns) == SelectSeq(patterns, IsRuleLine)

IsNegation(rule) == StartsAt(rule, 1, "!")

DropNegation(rule) == IF IsNegation(rule) THEN From(rule, 2) ELSE rule

DropLeadingGlob(g) == IF StartsAt(g, 1, "**/") THEN From(g, 4) ELSE g

DropTrailingGlob(g) ==
    IF Len(g) >= 3 /\ StartsAt(g, Len(g) - 2, "/**") THEN SubSeq(g, 1, Len(g) - 3) ELSE g

DropTrailingSlash(g) ==
    IF Len(g) >= 1 /\ Ch(g, Len(g)) = "/" THEN SubSeq(g, 1, Len(g) - 1) ELSE g

\* the rule without its negation marker, leading "**/" and trailing "/**" or "/"
RuleCore(rule) ==
    DropTrailingSlash(DropTrailingGlob(DropLeadingGlob(DropNegation(rule))))

\* core occurs in the path as whole segments
CoreMatches(core, p) ==
    /\ core # ""
    /\ \E i \in 1..Len(p) :
          /\ StartsAt(p, i, core)
          /\ i = 1 \/ Ch(p, i - 1) = "/"
          /\ i + Len(core) > Len(p) \/ Ch(p, i + Len(core)) = "/"

\* the rule's segments occur in the path as whole segments
RuleMatches(rule, p) == CoreMatches(RuleCore(rule), p)

\* the indexes of the rules that match the path
MatchingRules(matcher, p) == {i \in 1..Len(matcher) : RuleMatches(matcher[i], p)}

Max(set) == CHOOSE i \in set : \A j \in set : j <= i

Min(set) == CHOOSE i \in set : \A j \in set : i <= j

\* the verdict of the rule that decides
RuleVerdict(rule) ==
    IF IsNegation(rule) THEN [blocked |-> FALSE, pattern |-> Undef]
    ELSE [blocked |-> TRUE, pattern |-> Str(rule)]

\* the verdict given the indexes of the matching rules
VerdictOf(matcher, hits) ==
    IF hits = {} THEN [blocked |-> FALSE, pattern |-> Undef]
    ELSE RuleVerdict(matcher[Max(hits)])

\* match(Matcher, path): the last rule that matches decides
matchPath(matcher, p) == VerdictOf(matcher, MatchingRules(matcher, p))

\* a command token that is shaped like a path: not a flag, not a shell
\* operator, not a URL, not a key=value pair
IsPathToken(tok) ==
    /\ Contains(tok, "/")
    /\ ~StartsAt(tok, 1, "-")
    /\ tok \notin OPERATORS \cup {"|", "&"}
    /\ ~Contains(tok, "://")
    /\ ~Contains(tok, "=")

\* the path-shaped tokens of a command text, in order
PathTokens(s) == SelectSeq(Tokens(s), IsPathToken)

\* extract(actionDescription): the path fields as they are, then the
\* path-shaped tokens of the command text
extractFromToolInput(ti) ==
    LET field(x) == IF IsStr(x) /\ x.v # "" THEN <<x.v>> ELSE <<>>
    IN  field(ti.file_path) \o field(ti.path) \o field(ti.pattern)
        \o (IF IsStr(ti.command) THEN PathTokens(ti.command.v) ELSE <<>>)

----------------------------------------------------------------------------
(* MAIN ENTRY POINT of scout-checker.cjs                                   *)

NoInput == [kind |-> "undefined", file_path |-> Undef, path |-> Undef,
            pattern |-> Undef, command |-> Undef]

\* a decision object: keys are the properties it has
Decision(keys, blocked) ==
    [keys |-> keys, blocked |-> blocked, isAllowedCommand |-> FALSE,
     isBroadPattern |-> FALSE, path |-> Undef, pattern |-> Undef,
     reason |-> Undef, suggestions |-> <<>>]

Returned(decision, made, ti) ==
    [outcome |-> [kind |-> "return", value |-> decision], calls |-> made,
     narrowed |-> ti]

Thrown(ti) ==
    [outcome |-> [kind |-> "throw", value |-> Decision({}, FALSE)],
     calls |-> <<>>, narrowed |-> ti]

DEFAULT_BROAD_REASON == "Pattern too broad - may fill context with too many files"

\* lines 164-169: the toolInput with the shell executor unwrapped
UnwrapInput(ti) ==
    IF Truthy(ti.command) /\ unwrapShellExecutor(ti.command) # ti.command
    THEN [ti EXCEPT !.command = unwrapShellExecutor(ti.command)]
    ELSE ti

\* line 178: the callback of subCommands.filter
NotAllowed(c) == ~isAllowedCommand(Str(Trim(c)))

\* line 178
NonAllowedOf(subCommands) == SelectSeq(subCommands, NotAllowed)

\* NarrowInput that leaves the command text as it was
NarrowInput_Keep(ti) == ti

\* lines 183-185: the toolInput narrowed to the non-allowed sub-commands
NarrowInput(ti) ==
    LET subCommands == splitCompoundCommand(ti.command)
        nonAllowed == NonAllowedOf(subCommands)
    IN  IF Truthy(ti.command) /\ Len(nonAllowed) < Len(subCommands)
        THEN [ti EXCEPT !.command = Str(Join(nonAllowed, " ; "))]
        ELSE ti

\* the parameter toolInput: the object it names now, the object the caller
\* passed, and whether the two are still one object
Bind(ti) == [local |-> ti, caller |-> ti, same |-> TRUE]

\* toolInput.command = c, an assignment to the object the parameter names
SpreadCommand_InPlace(b, c) ==
    [local |-> [b.local EXCEPT !.command = c],
     caller |-> IF b.same THEN [b.caller EXCEPT !.command = c] ELSE b.caller,
     same |-> b.same]

\* toolInput = { ...toolInput, command: c } (lines 168 and 184): the parameter
\* is bound to a new object, the object it named before keeps its fields
SpreadCommand(b, c) ==
    [local |-> [b.local EXCEPT !.command = c], caller |-> b.caller, same |-> FALSE]

\* lines 164-169 on the binding
UnwrapBinding(b) ==
    IF Truthy(b.local.command) /\ unwrapShellExecutor(b.local.command) # b.local.command
    THEN SpreadCommand(b, unwrapShellExecutor(b.local.command))
    ELSE b

\* lines 179-185 on the binding: nothing is assigned on the allow return
NarrowTo(b, subCommands, nonAllowed) ==
    IF Len(nonAllowed) > 0 /\ Len(nonAllowed) < Len(subCommands)
    THEN SpreadCommand(b, Str(Join(nonAllowed, " ; ")))
    ELSE b

\* lines 178-185 on the binding
NarrowSubCommands(b, subCommands) == NarrowTo(b, subCommands, NonAllowedOf(subCommands))

\* lines 176-186 on the binding
NarrowBinding(b) ==
    IF Truthy(b.local.command)
    THEN NarrowSubCommands(b, splitCompoundCommand(b.local.command))
    ELSE b

\* the object the caller passed as it is when checkScoutBlock has ended
CallerInputAfter(ti) ==
    IF ti.kind \in {"undefined", "null"} THEN ti
    ELSE NarrowBinding(UnwrapBinding(Bind(ti))).caller

\* line 159: checkBroadPatterns = true unless the option is given
CheckBroadPatterns(opt) ==
    IF opt.kind = "undefined" \/ opt.checkBroadPatterns.t = "undefined" THEN TRUE
    ELSE Truthy(opt.checkBroadPatterns)

\* n calls of matchPath
MatchCalls(n) == [i \in 1..n |-> "matchPath"]

\* lines 221-226: the decision for a blocked path and the rule that blocked it
PathBlock(p, rule) ==
    [Decision({"blocked", "path", "pattern", "reason"}, TRUE)
        EXCEPT !.path = Str(p),
               !.pattern = rule,
               !.reason = Str("Path matches blocked pattern: " \o rule.v)]

\* the indexes of the paths that the matcher blocks
BlockedIdx(matcher, paths) ==
    {i \in 1..Len(paths) : matchPath(matcher, paths[i]).blocked}

\* MatchLoop that goes on after a blocking match and reports the last one
MatchLoop_LastBlocked(matcher, paths, hits, made, ti) ==
    IF hits = {}
    THEN Returned(Decision({"blocked"}, FALSE), made \o MatchCalls(Len(paths)), ti)
    ELSE Returned(PathBlock(paths[Max(hits)], matchPath(matcher, paths[Max(hits)]).pattern),
                  made \o MatchCalls(Len(paths)), ti)

\* lines 218-231: the loop over the extracted paths, given the blocked ones
MatchLoop(matcher, paths, hits, made, ti) ==
    IF hits = {}
    THEN Returned(Decision({"blocked"}, FALSE), made \o MatchCalls(Len(paths)), ti)
    ELSE Returned(PathBlock(paths[Min(hits)], matchPath(matcher, paths[Min(hits)]).pattern),
                  made \o MatchCalls(Min(hits)), ti)

\* lines 212-231: no path, or the loop over the paths
MatchPaths(matcher, paths, made, ti) ==
    IF Len(paths) = 0 THEN Returned(Decision({"blocked"}, FALSE), made, ti)
    ELSE MatchLoop(matcher, paths, BlockedIdx(matcher, paths), made, ti)

\* lines 202-232: load the rules, extract the paths, match each in order
PathStage(ti, resource, made) ==
    MatchPaths(createMatcher(loadPatterns(resource)), extractFromToolInput(ti),
               made \o <<"loadPatterns", "createMatcher", "extractFromToolInput">>, ti)

\* lines 192-198: the decision for a pattern the detector flagged
BroadBlock(ti, broadResult) ==
    [Decision({"blocked", "isBroadPattern", "pattern", "reason", "suggestions"}, TRUE)
        EXCEPT !.isBroadPattern = TRUE,
               !.pattern = ti.pattern,
               !.reason = IF Truthy(broadResult.reason) THEN broadResult.reason
                          ELSE Str(DEFAULT_BROAD_REASON),
               !.suggestions = broadResult.suggestions]

\* lines 190-199: the detector's result decides, or the path stage follows
AfterDetector(ti, broadResult, resource) ==
    IF broadResult.blocked
    THEN Returned(BroadBlock(ti, broadResult), <<"detectBroadPatternIssue">>, ti)
    ELSE PathStage(ti, resource, <<"detectBroadPatternIssue">>)

\* the path stage first; the detector only when no path is blocked
PathsThenDetector(tn, ti, opt, resource, reason, paths) ==
    IF paths.outcome.value.blocked THEN paths
    ELSE IF CheckBroadPatterns(opt) /\ (tn = "Glob" \/ Truthy(ti.pattern))
            /\ detectBroadPatternIssue(ti, reason).blocked
    THEN Returned(BroadBlock(ti, detectBroadPatternIssue(ti, reason)),
                  paths.calls \o <<"detectBroadPatternIssue">>, ti)
    ELSE paths

\* BroadStage that loads the rules and matches the paths first
BroadStage_PathsFirst(tn, ti, opt, resource, reason) ==
    PathsThenDetector(tn, ti, opt, resource, reason, PathStage(ti, resource, <<>>))

\* BroadStage that passes the detector's reason on without the fallback text
BroadStage_NoDefaultReason(tn, ti, opt, resource, reason) ==
    IF CheckBroadPatterns(opt) /\ (tn = "Glob" \/ Truthy(ti.pattern))
    THEN IF detectBroadPatternIssue(ti, reason).blocked
         THEN Returned([BroadBlock(ti, detectBroadPatternIssue(ti, reason))
                           EXCEPT !.reason = detectBroadPatternIssue(ti, reason).reason],
                       <<"detectBroadPatternIssue">>, ti)
         ELSE PathStage(ti, resource, <<"detectBroadPatternIssue">>)
    ELSE PathStage(ti, resource, <<>>)

\* lines 188-200, then the path stage
BroadStage(tn, ti, opt, resource, reason) ==
    IF CheckBroadPatterns(opt) /\ (tn = "Glob" \/ Truthy(ti.pattern))
    THEN AfterDetector(ti, detectBroadPatternIssue(ti, reason), resource)
    ELSE PathStage(ti, resource, <<>>)

\* CommandStage that classifies the whole command text without splitting it
CommandStage_NoSplit(tn, ti, opt, resource, reason) ==
    IF Truthy(ti.command) /\ isAllowedCommand(ti.command)
    THEN Returned([Decision({"blocked", "isAllowedCommand"}, FALSE)
                      EXCEPT !.isAllowedCommand = TRUE], <<>>, ti)
    ELSE BroadStage(tn, NarrowInput(ti), opt, resource, reason)

\* CommandStage that returns the recognized-tooling verdict only after the
\* breadth and path stages found nothing to block
CommandStage_AllowLast(tn, ti, opt, resource, reason) ==
    LET later == BroadStage(tn, NarrowInput(ti), opt, resource, reason)
    IN  IF /\ Truthy(ti.command)
           /\ Len(NonAllowedOf(splitCompoundCommand(ti.command))) = 0
           /\ ~later.outcome.value.blocked
        THEN Returned([Decision({"blocked", "isAllowedCommand"}, FALSE)
                          EXCEPT !.isAllowedCommand = TRUE], later.calls, ti)
        ELSE later

\* lines 176-186, then the later stages on the narrowed toolInput
CommandStage(tn, ti, opt, resource, reason) ==
    IF Truthy(ti.command) /\ Len(NonAllowedOf(splitCompoundCommand(ti.command))) = 0
    THEN Returned([Decision({"blocked", "isAllowedCommand"}, FALSE)
                      EXCEPT !.isAllowedCommand = TRUE], <<>>, ti)
    ELSE BroadStage(tn, NarrowInput(ti), opt, resource, reason)

\* checkScoutBlock({ toolName, toolInput, options = {} })
checkScoutBlock(tn, ti, opt, resource, reason) ==
    IF ti.kind \in {"undefined", "null"} THEN Thrown(ti)
    ELSE CommandStage(tn, UnwrapInput(ti), opt, resource, reason)

----------------------------------------------------------------------------
(* The scout-block.cjs hook (src/docs/security-configuration.md:120-266)   *)

NoOptions == [kind |-> "undefined", checkBroadPatterns |-> Undef]

\* the options object the hook passes (lines 208-212)
HookOptions == [kind |-> "object", checkBroadPatterns |-> Bool(TRUE)]

NoCall == [outcome |-> [kind |-> "none", value |-> Decision({}, FALSE)],
           calls |-> <<>>, narrowed |-> NoInput]

EXIT_ALLOWED == 0
EXIT_BLOCKED == 2

\* ExitFor that exits with the blocking code for breadth blocks only
ExitFor_BroadOnly(result) ==
    IF result.isAllowedCommand THEN EXIT_ALLOWED
    ELSE IF result.blocked /\ result.isBroadPattern THEN EXIT_BLOCKED
    ELSE EXIT_ALLOWED

\* the exit code for the decision checkScoutBlock returned (lines 215-248)
ExitFor(result) ==
    IF result.isAllowedCommand THEN EXIT_ALLOWED
    ELSE IF result.blocked /\ result.isBroadPattern THEN EXIT_BLOCKED
    ELSE IF result.blocked THEN EXIT_BLOCKED
    ELSE EXIT_ALLOWED

\* data.tool_name || 'unknown' (line 201)
HookToolName(data) == IF Truthy(data.tool_name) THEN data.tool_name.v ELSE "unknown"

\* the whole hook: the call it makes to checkScoutBlock (if any) and its exit code
RunHook(env, input, resource, reason) ==
    IF env # "enabled" THEN [call |-> NoCall, exit |-> EXIT_ALLOWED]
    ELSE IF input.text = "" \/ Len(Trim(input.text)) = 0
    THEN [call |-> NoCall, exit |-> EXIT_BLOCKED]
    ELSE IF ~input.parses THEN [call |-> NoCall, exit |-> EXIT_ALLOWED]
    ELSE IF input.data.kind = "null" THEN [call |-> NoCall, exit |-> EXIT_ALLOWED]
    ELSE IF input.data.kind # "object" \/ input.data.tool_input.kind # "object"
    THEN [call |-> NoCall, exit |-> EXIT_ALLOWED]
    ELSE LET call == checkScoutBlock(HookToolName(input.data), input.data.tool_input,
                                     HookOptions, resource, reason)
             exitOf(c) == IF c.outcome.kind = "throw" THEN EXIT_ALLOWED
                          ELSE ExitFor(c.outcome.value)
         IN  CHOOSE r \in {[call |-> c, exit |-> exitOf(c)] : c \in {call}} : TRUE

----------------------------------------------------------------------------
(* Inputs                                                                  *)

\* most sub-commands of a generated command
MaxSub == 2

\* most pieces of a generated normalize input
MaxNormPieces == 4

\* most pieces of a generated split input
MaxSplitPieces == 4

\* all concatenations of at most n members of pieces
RECURSIVE Concats(_, _)
Concats(pieces, n) ==
    IF n = 0 THEN {""}
    ELSE LET shorter == Concats(pieces, n - 1)
         IN  shorter \cup {a \o b : a \in shorter, b \in pieces}

SubCmds == {"npm run build", "cat ../etc/secrets", "go test ./etc/pub", "ls src/a"}

Joiners == {" && "}

\* sub-commands joined by sequencing operators, at most n of them
RECURSIVE Compound(_)
Compound(n) ==
    IF n = 1 THEN SubCmds
    ELSE LET shorter == Compound(n - 1)
         IN  shorter \cup {a \o j \o b : a \in shorter, j \in Joiners, b \in SubCmds}

ExecutorCommands ==
    {"bash -c \"npm run build && cat ../etc/secrets\"",
     "eval 'go test ./etc/pub'",
     "sh -c \"ls src/a\" ; cat \"../etc/secrets\"",
     "npm run build;cat ../etc/secrets", "ls src/a || go test ./etc/pub",
     "npm run build ; eval \"cat ../etc/secrets\"",
     ";", " && ", "  "}

CommandValues ==
    {Str(c) : c \in Compound(MaxSub) \cup ExecutorCommands} \cup {Undef, Num("7")}

PatternValues == {Undef, Str("**/*"), Str("src/**/*.ts")}

FilePathValues == {Undef, Str("etc/passwd")}

ToolInputs ==
    {[kind |-> "object", file_path |-> f, path |-> Undef, pattern |-> p, command |-> c] :
        f \in FilePathValues, p \in PatternValues, c \in CommandValues}

OptionValues ==
    {NoOptions,
     [kind |-> "object", checkBroadPatterns |-> Undef],
     [kind |-> "object", checkBroadPatterns |-> Bool(FALSE)]}

RuleResources ==
    {[readable |-> FALSE, lines |-> <<"etc">>],
     [readable |-> TRUE, lines |-> <<"# secrets", "**/etc/**">>],
     [readable |-> TRUE, lines |-> <<"etc/", "", "!etc/pub">>]}

\* the reason the detector gives for the pattern: none unless it flags it
ReasonsFor(pattern) ==
    IF IsStr(pattern) /\ IsBroadPattern(pattern.v)
    THEN {Undef, Str("Pattern matches every file")} ELSE {Undef}

NoPayload == [text |-> "", parses |-> FALSE,
              data |-> [kind |-> "undefined", tool_name |-> Undef, tool_input |-> NoInput]]

\* what the hook can read from stdin: nothing, blanks, text that is not JSON,
\* JSON that is no payload, and payloads
Payloads ==
    {NoPayload,
     [NoPayload EXCEPT !.text = " \n"],
     [NoPayload EXCEPT !.text = "{tool_input"],
     [NoPayload EXCEPT !.text = "null", !.parses = TRUE, !.data.kind = "null"],
     [NoPayload EXCEPT !.text = "7", !.parses = TRUE, !.data.kind = "number"],
     [NoPayload EXCEPT !.text = "{}", !.parses = TRUE, !.data.kind = "object"],
     [NoPayload EXCEPT !.text = "{\"tool_input\":\"ls\"}", !.parses = TRUE,
                       !.data.kind = "object", !.data.tool_input.kind = "string"]}
    \cup {[text |-> "{\"tool_name\":...,\"tool_input\":{...}}", parses |-> TRUE,
           data |-> [kind |-> "object", tool_name |-> n, tool_input |-> ti]] :
             n \in {Undef, Str("Bash"), Str("Glob")}, ti \in ToolInputs}

HookEnvs == {"enabled", "disabled", "crashed"}

----------------------------------------------------------------------------
(* The state machine: one guard invocation per behaviour, made either by a *)
(* plugin calling checkScoutBlock or by the host running the hook          *)

Idle(in) ==
    /\ cmd = in
    /\ out = <<>>
    /\ outcome = NoCall.outcome
    /\ calls = <<>>
    /\ narrowed = NoInput
    /\ exitCode = -1

Init ==
    /\ Idle(Undef)
    /\ ckignore \in RuleResources
    /\ \/ /\ stdin = NoPayload
          /\ hookEnabled = "none"
          /\ toolName \in {"Bash", "Glob"}
          /\ toolInput \in ToolInputs \cup {NoInput, [NoInput EXCEPT !.kind = "null"]}
          /\ options \in OptionValues
          /\ detReason \in ReasonsFor(toolInput.pattern)
       \/ /\ hookEnabled \in HookEnvs
          /\ stdin \in IF hookEnabled = "enabled" THEN Payloads
                        ELSE {p \in Payloads : p.data.tool_input.command.t # "string"}
          /\ toolName = "none"
          /\ toolInput = NoInput
          /\ options = NoOptions
          /\ detReason \in ReasonsFor(stdin.data.tool_input.pattern)

\* a plugin calls checkScoutBlock({ toolName, toolInput, options })
CallCheckScoutBlock ==
    /\ hookEnabled = "none"
    /\ outcome.kind = "none"
    /\ \E call \in {checkScoutBlock(toolName, toolInput, options, ckignore, detReason)} :
           /\ outcome' = call.outcome
           /\ calls' = call.calls
           /\ narrowed' = call.narrowed
    /\ toolInput' = CallerInputAfter(toolInput)
    /\ UNCHANGED <<cmd, out, toolName, options, ckignore, detReason,
                   stdin, hookEnabled, exitCode>>

\* the host runs scout-block.cjs with a payload on stdin
RunScoutBlockHook ==
    /\ hookEnabled # "none"
    /\ exitCode = -1
    /\ \E run \in {RunHook(hookEnabled, stdin, ckignore, detReason)} :
           /\ exitCode' = run.exit
           /\ outcome' = run.call.outcome
           /\ calls' = run.call.calls
           /\ narrowed' = run.call.narrowed
           /\ IF run.call.outcome.kind = "none"
              THEN UNCHANGED <<toolName, toolInput, options>>
              ELSE /\ toolName' = HookToolName(stdin.data)
                   /\ toolInput' = CallerInputAfter(stdin.data.tool_input)
                   /\ options' = HookOptions
    /\ UNCHANGED <<cmd, out, ckignore, detReason, stdin, hookEnabled>>

Next == CallCheckScoutBlock \/ RunScoutBlockHook

Spec == Init /\ [][Next]_vars

----------------------------------------------------------------------------
(* Runs of the pure helper functions                                       *)

NoGuardRun ==
    /\ toolName = "none"
    /\ toolInput = NoInput
    /\ options = NoOptions
    /\ ckignore = [readable |-> FALSE, lines |-> <<>>]
    /\ detReason = Undef
    /\ stdin = NoPayload
    /\ hookEnabled = "none"

NormalizePieces == {"sudo ", "env ", "time", "out ", "A=1 ", "B=x", "npm", " "}

InitNormalize ==
    /\ \E c \in Concats(NormalizePieces, MaxNormPieces) : Idle(Str(c))
    /\ NoGuardRun

\* stripCommandPrefix applied to the command, then to its own result
Normalize ==
    /\ Len(out) < 2
    /\ out' = Append(out, stripCommandPrefix(IF out = <<>> THEN cmd ELSE out[Len(out)]))
    /\ UNCHANGED <<cmd, toolName, toolInput, options, ckignore, detReason,
                   outcome, calls, narrowed, stdin, hookEnabled, exitCode>>

NextNormalize == Normalize

SpecNormalize == InitNormalize /\ [][NextNormalize]_vars

SplitPieces == {"a", "b", " ", "\n", "&&", "||", ";", "&", "|"}

InitSplit ==
    /\ \E c \in Concats(SplitPieces, MaxSplitPieces) : Idle(Str(c))
    /\ NoGuardRun

\* splitCompoundCommand applied to the command
Split ==
    /\ out = <<>>
    /\ out' = <<splitCompoundCommand(cmd)>>
    /\ UNCHANGED <<cmd, toolName, toolInput, options, ckignore, detReason,
                   outcome, calls, narrowed, stdin, hookEnabled, exitCode>>

NextSplit == Split

SpecSplit == InitSplit /\ [][NextSplit]_vars

\* most pieces of a generated classify input
MaxClassifyPieces == 3

ClassifyPieces ==
    {"npm ", "run ", "build", "view ", "--filter ", "go", "pher ", "sudo ",
     "cat ", "x/venv/bin/p ", "python -m venv "}

InitClassify ==
    /\ \E c \in Concats(ClassifyPieces, MaxClassifyPieces) : Idle(Str(c))
    /\ NoGuardRun

\* isAllowedCommand applied to the command, with the text it classifies
Classify ==
    /\ out = <<>>
    /\ out' = <<[normalized |-> stripCommandPrefix(cmd),
                 allowed |-> isAllowedCommand(cmd)]>>
    /\ UNCHANGED <<cmd, toolName, toolInput, options, ckignore, detReason,
                   outcome, calls, narrowed, stdin, hookEnabled, exitCode>>

NextClassify == Classify

SpecClassify == InitClassify /\ [][NextClassify]_vars

\* most pieces of a generated unwrap input
MaxUnwrapPieces == 4

UnwrapPieces ==
    {"bash -c ", "eval ", "sh ", "-c ", "\"ls\"", "'ls'", "\"", "'", " ; ",
     "ls", "\n"}

InitUnwrap ==
    /\ \E c \in Concats(UnwrapPieces, MaxUnwrapPieces) : Idle(Str(c))
    /\ NoGuardRun

\* unwrapShellExecutor applied to the command
Unwrap ==
    /\ out = <<>>
    /\ out' = <<unwrapShellExecutor(cmd)>>
    /\ UNCHANGED <<cmd, toolName, toolInput, options, ckignore, detReason,
                   outcome, calls, narrowed, stdin, hookEnabled, exitCode>>

NextUnwrap == Unwrap

SpecUnwrap == InitUnwrap /\ [][NextUnwrap]_vars

----------------------------------------------------------------------------
(* Properties                                                              *)

\* a guard invocation was made and has ended
Called == outcome.kind # "none"

DecisionReturned == outcome.kind = "return"

\* the command text the classifier works on: the caller's, executor unwrapped
CommandText == UnwrapInput(toolInput).command

SubCommands == splitCompoundCommand(CommandText)

ClassifiesAllowed(c) == isAllowedCommand(Str(Trim(c)))

\* the indexes of the sub-commands that do not classify allowed
NonAllowedIdx ==
    LET subs == SubCommands IN {i \in 1..Len(subs) : ~ClassifiesAllowed(subs[i])}

RecognizedTooling ==
    /\ DecisionReturned
    /\ ~outcome.value.blocked
    /\ outcome.value.isAllowedCommand

\* the compiled rules of the invocation
Matcher == createMatcher(loadPatterns(ckignore))

Blocks(p) == matchPath(Matcher, p).blocked

\* s begins with a wrapper word followed by whitespace
BeginsWithWrapper(s) ==
    \E w \in WRAPPERS : StartsAt(s, 1, w) /\ Len(s) > Len(w)
                                          /\ Ch(s, Len(w) + 1) \in SpaceChars

C2_NoMasking ==
    RecognizedTooling => NonAllowedIdx = {}

\* C2 witness: "npm run build;cat ../etc/secrets" was judged and was not
\* returned as recognized tooling.
C2_Witness ==
    /\ DecisionReturned
    /\ toolInput.command = Str("npm run build;cat ../etc/secrets")
    /\ ClassifiesAllowed(SubCommands[1])
    /\ ~ClassifiesAllowed(SubCommands[2])
    /\ ~outcome.value.isAllowedCommand

\* C3: when the action carries command text and every sub-command classifies
\* allowed, the decision is { blocked: false, isAllowedCommand: true } and no
\* collaborator (detector, rule loading, extraction, matching) was called.
C3_AllowShortCircuit ==
    (Called /\ toolInput.kind = "object" /\ Truthy(toolInput.command)
            /\ NonAllowedIdx = {})
    => /\ RecognizedTooling
       /\ outcome.value.keys = {"blocked", "isAllowedCommand"}
       /\ calls = <<>>

\* C3 witness: an all-allowed command on an action that also carries a broad
\* pattern and a path that a rule blocks.
C3_Witness ==
    /\ RecognizedTooling
    /\ toolInput.command = Str("npm run build && go test ./etc/pub")
    /\ toolInput.pattern = Str("**/*")
    /\ toolInput.file_path = Str("etc/passwd")
    /\ ckignore.readable
    /\ CheckBroadPatterns(options)
    /\ calls = <<>>

\* the path-shaped tokens of the members of subs with index in idx, in order
RECURSIVE TokensOfSubs(_, _, _)
TokensOfSubs(subs, i, idx) ==
    IF i > Len(subs) THEN <<>>
    ELSE (IF i \in idx THEN PathTokens(subs[i]) ELSE <<>>)
         \o TokensOfSubs(subs, i + 1, idx)

Range(seq) == {seq[i] : i \in 1..Len(seq)}

\* the values of the path and pattern fields of the caller's action
FieldPaths ==
    {x.v : x \in {y \in {toolInput.file_path, toolInput.path, toolInput.pattern} :
                     IsStr(y) /\ y.v # ""}}

\* the first member of seq that the rules block
FirstBlocked(seq) ==
    seq[CHOOSE i \in 1..Len(seq) :
            Blocks(seq[i]) /\ \A j \in 1..(i - 1) : ~Blocks(seq[j])]

\* C4: when some but not all sub-commands classify allowed, (a) a path of a
\* non-allowed sub-command that a rule blocks yields a blocked decision, and,
\* unless the breadth check or a blocked path field decides first, the decision
\* names the first such path and the rule that matched it; (b) the path a
\* block names is never a token that occurs only in an allowed sub-command.
C4_Narrowing ==
    (Called /\ toolInput.kind = "object")
    => LET subs == SubCommands
           nonAllowedIdx == {i \in 1..Len(subs) : ~ClassifiesAllowed(subs[i])}
           nonAllowedTokens == TokensOfSubs(subs, 1, nonAllowedIdx)
           res == outcome.value
       IN  (nonAllowedIdx # {} /\ Cardinality(nonAllowedIdx) < Len(subs))
           => /\ DecisionReturned
              /\ (\E p \in Range(nonAllowedTokens) : Blocks(p))
                 => /\ res.blocked
                    /\ (~res.isBroadPattern /\ \A f \in FieldPaths : ~Blocks(f))
                       => /\ res.path = Str(FirstBlocked(nonAllowedTokens))
                          /\ res.pattern = matchPath(Matcher, res.path.v).pattern
              /\ (res.blocked /\ ~res.isBroadPattern)
                 => /\ Blocks(res.path.v)
                    /\ res.path.v \in FieldPaths \cup Range(nonAllowedTokens)

\* C4 witness: the allowed sub-command carries a path the rules block, the
\* non-allowed one too; the block names the non-allowed sub-command's path.
C4_Witness ==
    /\ DecisionReturned
    /\ toolInput.command = Str("go test ./etc/pub && cat ../etc/secrets")
    /\ toolInput.file_path = Undef
    /\ Blocks("./etc/pub")
    /\ narrowed.command = Str("cat ../etc/secrets")
    /\ outcome.value.blocked
    /\ outcome.value.path = Str("../etc/secrets")
    /\ outcome.value.pattern = Str("**/etc/**")

\* C5: the hook exits with the blocking code only after checkScoutBlock has
\* returned a blocked decision; every malformed payload and every exception
\* ends with exit code 0.
C5_FailOpen ==
    exitCode = EXIT_BLOCKED => (DecisionReturned /\ outcome.value.blocked)

\* C6: checkScoutBlock always produces a decision and never throws, for
\* well-formed and malformed input alike.
C6_NeverThrows == outcome.kind # "throw"

\* piece contains one of the operators &&, || and ;
HasOperator(piece) == \E op \in OPERATORS : Contains(piece, op)

\* C7: splitCompoundCommand cuts at every &&, || and ; and returns the
\* segments trimmed of leading and trailing whitespace, none of them empty.
C7_SplitTrimmed ==
    Len(out) = 1
    => \A i \in 1..Len(out[1]) :
          /\ out[1][i] # ""
          /\ out[1][i] = Trim(out[1][i])
          /\ ~HasOperator(out[1][i])

\* the action is enumeration-shaped, was not allowed as recognized tooling,
\* and the detector flags its pattern
BreadthCase ==
    /\ Called
    /\ toolInput.kind = "object"
    /\ toolName = "Glob" \/ Truthy(toolInput.pattern)
    /\ ~RecognizedTooling
    /\ detectBroadPatternIssue(toolInput, detReason).blocked

\* the decision is a breadth block made before the rules were loaded
BreadthBlockFirst ==
    /\ DecisionReturned
    /\ outcome.value.blocked
    /\ outcome.value.isBroadPattern
    /\ outcome.value.pattern = toolInput.pattern
    /\ Truthy(outcome.value.reason)
    /\ Len(outcome.value.suggestions) >= 1
    /\ calls = <<"detectBroadPatternIssue">>

\* C8 (as stated): for an enumeration-shaped action not already allowed as
\* recognized tooling whose pattern the detector flags, the decision is a
\* breadth block with a reason and at least one suggestion, made before the
\* rule set is loaded or any path is matched.
C8_BreadthBlock == BreadthCase => BreadthBlockFirst

\* C8 (amended): the same, provided breadth checking is enabled
\* (options.checkBroadPatterns absent or truthy, as the hook passes it); with
\* the option switched off the detector is not consulted at all.
C8_BreadthBlockWhenEnabled ==
    /\ (BreadthCase /\ CheckBroadPatterns(options)) => BreadthBlockFirst
    /\ (Called /\ ~CheckBroadPatterns(options))
       => "detectBroadPatternIssue" \notin Range(calls)

\* C8 witness: a Glob of every file; a rule also blocks the action's path, but
\* the breadth block comes first.
C8_Witness ==
    /\ BreadthCase
    /\ BreadthBlockFirst
    /\ toolName = "Glob"
    /\ toolInput.pattern = Str("**/*")
    /\ toolInput.file_path = Str("etc/passwd")
    /\ Blocks("etc/passwd")

\* C9: a blocked decision is exactly one of a path block (path and matching
\* rule, no breadth marker) or a breadth block (breadth marker, pattern,
\* non-empty reason, suggestions); the recognized-tooling flag appears only on
\* non-blocked decisions, which carry no path, rule or reason.
C9_DecisionShape ==
    DecisionReturned
    => LET res == outcome.value
           pathBlock == /\ res.keys = {"blocked", "path", "pattern", "reason"}
                        /\ IsStr(res.path) /\ res.path.v # ""
                        /\ IsStr(res.pattern) /\ res.pattern.v # ""
                        /\ ~res.isBroadPattern
           breadthBlock == /\ res.keys = {"blocked", "isBroadPattern", "pattern",
                                          "reason", "suggestions"}
                           /\ res.isBroadPattern
                           /\ IsStr(res.pattern)
                           /\ IsStr(res.reason) /\ res.reason.v # ""
       IN  /\ "blocked" \in res.keys
           /\ res.blocked => (pathBlock \/ breadthBlock) /\ ~(pathBlock /\ breadthBlock)
           /\ res.isAllowedCommand => ~res.blocked
           /\ ~res.blocked => /\ res.keys \subseteq {"blocked", "isAllowedCommand"}
                              /\ ~Truthy(res.path) /\ ~Truthy(res.pattern)
                              /\ ~Truthy(res.reason)

\* C9 witness: a breadth block for which the detector gave no reason text.
C9_Witness ==
    /\ DecisionReturned
    /\ outcome.value.isBroadPattern
    /\ detReason = Undef
    /\ outcome.value.reason = Str(DEFAULT_BROAD_REASON)

\* C10: whenever checkScoutBlock returns to the hook, the hook exits with 2
\* if the decision is blocked and with 0 if it is not blocked or carries the
\* recognized-tooling flag; no other exit code is produced.
C10_ExitCode ==
    (exitCode # -1 /\ DecisionReturned)
    => /\ exitCode \in {EXIT_ALLOWED, EXIT_BLOCKED}
       /\ outcome.value.blocked => exitCode = EXIT_BLOCKED
       /\ (~outcome.value.blocked \/ outcome.value.isAllowedCommand)
          => exitCode = EXIT_ALLOWED

\* C10 witness: the hook exits with 2 on a path block.
C10_Witness ==
    /\ exitCode = EXIT_BLOCKED
    /\ DecisionReturned
    /\ outcome.value.blocked
    /\ ~outcome.value.isBroadPattern
    /\ "path" \in outcome.value.keys

\* the first whitespace-separated token of s
FirstToken(s) ==
    SubSeq(s, SkipIn(s, 1, SpaceChars),
           SkipNotIn(s, SkipIn(s, 1, SpaceChars), SpaceChars) - 1)

\* the listed toolchain binary names as whole tokens, with or without "./"
ToolTokens ==
    TOOL_NAMES \cup {"python3"} \cup {"./" \o n : n \in TOOL_NAMES \cup {"python3"}}

\* the sub-command is a package-manager invocation
PackageManagerCommand(s) == FirstToken(s) \in PACKAGE_MANAGERS

\* C11: isAllowedCommand is true only when, after stripCommandPrefix, the
\* leading token of the sub-command is a recognized item: a listed toolchain
\* binary name as a whole token, a binary inside a venv executable directory,
\* or the command creates a venv (package-manager invocations aside); a first
\* token that merely starts with a listed name, or a venv directory mentioned
\* in a later argument, classifies false.
C11_LeadingTokenRecognized ==
    (Len(out) = 1 /\ out[1].allowed /\ ~PackageManagerCommand(out[1].normalized.v))
    => \/ FirstToken(out[1].normalized.v) \in ToolTokens
       \/ VENV_EXECUTABLE_PATTERN(FirstToken(out[1].normalized.v))
       \/ VENV_CREATION_PATTERN(out[1].normalized.v)

\* from index i of toks on: filter/workspace flags (a flag, a flag and its
\* value, "workspace" and a name), then an optional "run", then a safe verb
RECURSIVE FlagsThenVerb(_, _)
FlagsThenVerb(toks, i) ==
    /\ i <= Len(toks)
    /\ \/ toks[i] \in SAFE_VERBS
       \/ toks[i] = "run" /\ i + 1 <= Len(toks) /\ toks[i + 1] \in SAFE_VERBS
       \/ StartsAt(toks[i], 1, "-")
          /\ (FlagsThenVerb(toks, i + 1) \/ FlagsThenVerb(toks, i + 2))
       \/ toks[i] = "workspace" /\ FlagsThenVerb(toks, i + 2)

\* C12: a package-manager sub-command classifies true only if its verb is one
\* of the safe verbs, optionally after "run", and the only tokens between the
\* package manager and the verb are filter/workspace flags; a different verb,
\* or arbitrary non-flag words before a safe verb, classifies false.
C12_SafeVerbOnly ==
    (Len(out) = 1 /\ out[1].allowed /\ PackageManagerCommand(out[1].normalized.v))
    => FlagsThenVerb(Tokens(out[1].normalized.v), 2)

\* t is one executor invocation around a single quoted string: the head, an
\* opening quote, text without that quote character, the same quote closing
SingleQuotedExecutor(t) ==
    /\ ExecutorQuoteAt(t) > 0
    /\ Len(t) >= ExecutorQuoteAt(t) + 2
    /\ Ch(t, Len(t)) = Ch(t, ExecutorQuoteAt(t))
    /\ \A k \in (ExecutorQuoteAt(t) + 1)..(Len(t) - 1) :
          Ch(t, k) # Ch(t, ExecutorQuoteAt(t))

\* C13: unwrapShellExecutor returns the inner string only when the whole
\* command is exactly one executor invocation (bash/sh/zsh -c, or eval) around
\* a single quoted command string, removing one level of wrapping; every other
\* command, one with further text or further quoted spans after the
\* invocation included, is returned unchanged.
C13_UnwrapExact ==
    (Len(out) = 1 /\ out[1] # cmd)
    => /\ SingleQuotedExecutor(Trim(cmd.v))
       /\ out[1].v = SubSeq(Trim(cmd.v), ExecutorQuoteAt(Trim(cmd.v)) + 1,
                            Len(Trim(cmd.v)) - 1)

\* C14: checkScoutBlock never mutates the toolInput object it was given: when
\* the call has ended, whatever the verdict and whether or not the command was
\* unwrapped or narrowed, file_path, path, pattern and command of the caller's
\* object have the values they had before; unwrapping and narrowing work on a
\* copy. (A step of a run without hook is the plugin's call; in a hook run
\* the object is the tool_input of the payload.)
C14_InputNotMutated ==
    [][/\ hookEnabled = "none" => toolInput' = toolInput
       /\ (hookEnabled # "none" /\ outcome'.kind # "none")
          => toolInput' = stdin.data.tool_input]_vars

\* C14 witness: a call that both unwrapped and narrowed the command and
\* blocked; the caller's object still carries the command it passed.
C14_Witness ==
    /\ DecisionReturned
    /\ outcome.value.blocked
    /\ toolInput.command = Str("bash -c \"npm run build && cat ../etc/secrets\"")
    /\ UnwrapInput(toolInput).command = Str("npm run build && cat ../etc/secrets")
    /\ narrowed.command = Str("cat ../etc/secrets")

\* C15: narrowing is idempotent: when checkScoutBlock narrows the command to
\* the text N (the non-allowed sub-commands rejoined), processing N again
\* through unwrapShellExecutor, splitCompoundCommand, stripCommandPrefix and
\* isAllowedCommand yields exactly the same list of non-allowed sub-commands:
\* none is classified allowed now, nothing is unwrapped or split further.
C15_NarrowingIdempotent ==
    (Called /\ toolInput.kind = "object" /\ Truthy(CommandText)
            /\ NonAllowedIdx # {} /\ Cardinality(NonAllowedIdx) < Len(SubCommands))
    => /\ narrowed.command = Str(Join(NonAllowedOf(SubCommands), " ; "))
       /\ unwrapShellExecutor(narrowed.command) = narrowed.command
       /\ splitCompoundCommand(unwrapShellExecutor(narrowed.command))
             = NonAllowedOf(SubCommands)
       /\ NonAllowedOf(splitCompoundCommand(unwrapShellExecutor(narrowed.command)))
             = NonAllowedOf(SubCommands)

\* the command and breadth stages have not decided
PathStageReached ==
    /\ DecisionReturned
    /\ toolInput.kind = "object"
    /\ ~RecognizedTooling
    /\ ~outcome.value.isBroadPattern

\* the number of members of seq equal to x
Count(seq, x) == Cardinality({i \in 1..Len(seq) : seq[i] = x})

\* C16: once the command and breadth stages have not decided, the decision is
\* blocked if and only if the matcher blocks at least one extracted path; the
\* path reported is the first one in extraction order that the matcher blocks
\* and the rule reported is the one the matcher returned for it, no path after
\* it being matched; with no extracted path, or none blocked, the decision is
\* { blocked: false }.
C16_PathStage ==
    PathStageReached
    => LET paths == extractFromToolInput(narrowed)
           hits == {i \in 1..Len(paths) : Blocks(paths[i])}
           res == outcome.value
       IN  /\ res.blocked <=> hits # {}
           /\ res.blocked
              => /\ res.path = Str(paths[Min(hits)])
                 /\ res.pattern = matchPath(Matcher, paths[Min(hits)]).pattern
                 /\ Count(calls, "matchPath") = Min(hits)
           /\ ~res.blocked
              => /\ res.keys = {"blocked"}
                 /\ Count(calls, "matchPath") = Len(paths)

\* C16 witness: the path field and a command token are both blocked; the
\* decision names the path field, which is extracted first, and its rule.
C16_Witness ==
    /\ PathStageReached
    /\ toolInput.file_path = Str("etc/passwd")
    /\ toolInput.command = Str("cat ../etc/secrets")
    /\ extractFromToolInput(narrowed) = <<"etc/passwd", "../etc/secrets">>
    /\ Blocks("../etc/secrets")
    /\ outcome.value.blocked
    /\ outcome.value.path = Str("etc/passwd")
    /\ outcome.value.pattern = Str("etc/")
    /\ Count(calls, "matchPath") = 1

\* C17: the recognized-tooling verdict requires at least one classified
\* sub-command: when the command yields no sub-command from
\* splitCompoundCommand (operators and whitespace only, or a truthy value that
\* is not a string), checkScoutBlock does not return
\* { blocked: false, isAllowedCommand: true } but goes on to the breadth and
\* path stages.
C17_NeedsSubCommand ==
    (Called /\ toolInput.kind = "object" /\ Len(SubCommands) = 0)
    => ~RecognizedTooling

====
